---- MODULE Spec2Model ----
(***************************************************************************)
(* Model of the recipe analysis pipeline (src/analysis.py) and of the      *)
(* session gate of the web layer (src/app.py).                             *)
(*                                                                         *)
(* Representation.  A string is the tuple of its character codes, so that  *)
(* str.lower() and the lexicographic order pandas sorts by are computed.   *)
(* A float is an exact fraction <<n, d>> in lowest terms with d > 0; the   *)
(* missing value NaN is <<0, 0>>.  A missing string cell (NaN in an object *)
(* column) is the empty tuple.  A DataFrame is a record [cols, rows]: the  *)
(* set of its column labels and the sequence of its rows, each row a       *)
(* function from the column labels (and "_index", the row's index label)   *)
(* to cell values.                                                         *)
(***************************************************************************)
EXTENDS Integers, Sequences, FiniteSets, TLC

VARIABLES
    fileExists,            \* whether the dataset path resolves to a readable file
    file,                  \* the table stored in the file
    df,                    \* the DataFrame the running call works on
    pc,                    \* position of the running call
    raised,                \* the exception that ended the call, or "none"
    arg,                   \* the scalar argument of the call (top_n, diet_type)
    avg_macros,            \* result of calculate_average_macros
    top_protein,           \* result of get_top_protein_recipes
    highest_protein_diet,  \* result of get_highest_protein_diet
    common_cuisines,       \* result of get_common_cuisines
    out,                   \* result of filter_by_diet / get_macronutrient_distribution / the bundle
    session,               \* the HTTP session's "user" entry
    sock,                  \* the Socket.IO connection and the session copy it holds
    last                   \* the last web request: its handler, status, whether its body ran

vars == <<fileExists, file, df, pc, raised, arg, avg_macros, top_protein,
          highest_protein_diet, common_cuisines, out, session, sock, last>>

\* ---------------------------------------------------------------- bounds
MaxRows == 3
PipeRows == 2
PipeMaxVal == 1
MaxVal == 2
MaxTopN == 2

\* ---------------------------------------------------------------- strings
s_keto == <<107, 101, 116, 111>>
s_Keto == <<75, 101, 116, 111>>
s_vegan == <<118, 101, 103, 97, 110>>
s_all == <<97, 108, 108>>
s_ALL == <<65, 76, 76>>
s_All == <<65, 108, 108>>
s_KETO == <<75, 69, 84, 79>>
s_paleo == <<112, 97, 108, 101, 111>>
s_Italian == <<73, 116, 97, 108, 105, 97, 110>>
s_Thai == <<84, 104, 97, 105>>
s_Unknown == <<85, 110, 107, 110, 111, 119, 110>>
NoStr == << >>

\* str.lower() on ASCII text
lower(s) ==
    [i \in DOMAIN s |-> IF s[i] \in 65..90 THEN s[i] + 32 ELSE s[i]]

RECURSIVE StrLess(_, _)
\* a < b for Python strings (lexicographic by code point)
StrLess(a, b) ==
    IF b = << >> THEN FALSE
    ELSE IF a = << >> THEN TRUE
    ELSE IF a[1] # b[1] THEN a[1] < b[1]
    ELSE StrLess(Tail(a), Tail(b))

RECURSIVE SortStrs(_)
\* the strings of a set in ascending order
SortStrs(S) ==
    IF S = {} THEN << >>
    ELSE LET m == CHOOSE x \in S : \A y \in S : ~StrLess(y, x)
         IN  <<m>> \o SortStrs(S \ {m})

\* ---------------------------------------------------------------- floats
NaN == <<0, 0>>

RECURSIVE GCD(_, _)
GCD(a, b) == IF b = 0 THEN a ELSE GCD(b, a % b)

Frac(n, d) ==
    IF d = 0 THEN NaN
    ELSE LET g == GCD(n, d) IN <<n \div g, d \div g>>

Num(k) == <<k, 1>>

isna(x) == x = NaN \/ x = NoStr

\* x + y, x / y and the comparisons of IEEE floats on the values the model uses
\* (non-negative finite numbers and NaN; no division by zero is ever evaluated)
FAdd(x, y) ==
    IF x = NaN \/ y = NaN THEN NaN ELSE Frac(x[1] * y[2] + y[1] * x[2], x[2] * y[2])

FDiv(x, y) ==
    IF x = NaN \/ y = NaN THEN NaN ELSE Frac(x[1] * y[2], x[2] * y[1])

FLess(x, y) ==
    x # NaN /\ y # NaN /\ x[1] * y[2] < y[1] * x[2]

\* bool(x) of a float: 0.0 is falsy, every other float, NaN included, is truthy
Truthy(x) == x # Num(0)

RECURSIVE FSum(_)
FSum(s) == IF s = << >> THEN Num(0) ELSE FAdd(s[1], FSum(Tail(s)))

\* ---------------------------------------------------------------- pandas
MacroSet == {"Protein(g)", "Carbs(g)", "Fat(g)"}
BaseCols == {"Diet_type", "Recipe_name"}
AllCols == BaseCols \cup MacroSet \cup {"Cuisine_type"}

EmptyFrame == [cols |-> {}, rows |-> << >>]

\* df[col] as the sequence of its cells
Column(t, col) == [i \in 1..Len(t.rows) |-> t.rows[i][col]]

NotNa(x) == ~isna(x)

\* Series.mean(): NaN cells are skipped; the mean of no value is NaN
series_mean(s) ==
    LET vals == SelectSeq(s, NotNa)
    IN  IF vals = << >> THEN NaN ELSE FDiv(FSum(vals), Num(Len(vals)))

\* Series.fillna(v)
fillna(x, v) == IF isna(x) THEN v ELSE x

\* ---------------------------------------------------------------- analysis.py
\* clean_macronutrients: each present macronutrient column gets its missing cells
\* replaced by the column's mean; the columns are independent of one another
clean_macronutrients(t) ==
    [cols |-> t.cols,
     rows |-> [i \in 1..Len(t.rows) |->
        [c \in DOMAIN t.rows[i] |->
            IF c \in MacroSet
            THEN fillna(t.rows[i][c], series_mean(Column(t, c)))
            ELSE t.rows[i][c]]]]

\* the lambda of one ratio column: row[num] / row[den] if row[den] else 0
ratio_lambda(row, num, den) ==
    IF Truthy(row[den]) THEN FDiv(row[num], row[den]) ELSE Num(0)

\* whether df.apply(lambda, axis=1) raises KeyError: row[den] is read on every row,
\* row[num] only on the rows whose denominator is truthy
ratio_raises(t, num, den) ==
    /\ t.rows # << >>
    /\ \/ den \notin t.cols
       \/ /\ num \notin t.cols
          /\ \E i \in 1..Len(t.rows) : Truthy(t.rows[i][den])

add_nutrient_ratios_raises(t) ==
    \/ ratio_raises(t, "Protein(g)", "Carbs(g)")
    \/ ratio_raises(t, "Carbs(g)", "Fat(g)")

RatioCols == {"Protein_to_Carbs_ratio", "Carbs_to_Fat_ratio"}

add_nutrient_ratios(t) ==
    [cols |-> t.cols \cup RatioCols,
     rows |-> [i \in 1..Len(t.rows) |->
        [c \in DOMAIN t.rows[i] \cup RatioCols |->
            IF c = "Protein_to_Carbs_ratio"
            THEN ratio_lambda(t.rows[i], "Protein(g)", "Carbs(g)")
            ELSE IF c = "Carbs_to_Fat_ratio"
            THEN ratio_lambda(t.rows[i], "Carbs(g)", "Fat(g)")
            ELSE t.rows[i][c]]]]

\* df.groupby('Diet_type'): the group keys in ascending order (sort=True), rows
\* with a missing key left out (dropna=True), each group's rows in frame order
GroupKeys(rows) ==
    SortStrs({rows[i]["Diet_type"] : i \in 1..Len(rows)} \ {NoStr})

GroupRows(rows, k) ==
    LET InGroup(r) == r["Diet_type"] = k IN SelectSeq(rows, InGroup)

\* groupby('Diet_type')[required_cols]: KeyError when a selected column is missing
calculate_average_macros_raises(t) ==
    \E c \in MacroSet : c \notin t.cols

calculate_average_macros(t) ==
    LET keys == GroupKeys(t.rows)
    IN  [cols |-> MacroSet,
         rows |-> [g \in 1..Len(keys) |->
            [c \in MacroSet \cup {"_index"} |->
                IF c = "_index" THEN keys[g]
                ELSE series_mean(Column([cols |-> t.cols,
                                         rows |-> GroupRows(t.rows, keys[g])], c))]]]

\* sort_values(col, ascending=False) with the default kind='quicksort' and
\* na_position='last': the non-missing rows in non-increasing order of col, rows
\* of equal value in an order the sort does not fix, then the missing rows in
\* frame order.  The set of the orders the call may produce.
sort_values_desc(rows, col) ==
    LET IsNum(r) == ~isna(r[col])
        IsNa(r) == isna(r[col])
        nums == SelectSeq(rows, IsNum)
        nas == SelectSeq(rows, IsNa)
        n == Len(nums)
        perms == {p \in [1..n -> 1..n] :
                    /\ \A i, j \in 1..n : i # j => p[i] # p[j]
                    /\ \A i, j \in 1..n :
                          i < j => ~FLess(nums[p[i]][col], nums[p[j]][col])}
    IN  {[i \in 1..n |-> nums[p[i]]] \o nas : p \in perms}

\* groupby_head with the cut one row late
groupby_head_one_more(rows, n) ==
    LET Rank(i) == Cardinality({j \in 1..(i - 1) :
                                  rows[j]["Diet_type"] = rows[i]["Diet_type"]})
        keep == {i \in 1..Len(rows) : rows[i]["Diet_type"] # NoStr /\ Rank(i) <= n}
        RECURSIVE Take(_)
        Take(i) == IF i > Len(rows) THEN << >>
                   ELSE (IF i \in keep THEN <<rows[i]>> ELSE << >>) \o Take(i + 1)
    IN  Take(1)

\* GroupBy.head(n), n >= 0: the rows that are among the first n of their group,
\* kept in the order of the frame; rows with a missing key are dropped
groupby_head(rows, n) ==
    LET Rank(i) == Cardinality({j \in 1..(i - 1) :
                                  rows[j]["Diet_type"] = rows[i]["Diet_type"]})
        keep == {i \in 1..Len(rows) : rows[i]["Diet_type"] # NoStr /\ Rank(i) < n}
        RECURSIVE Take(_)
        Take(i) == IF i > Len(rows) THEN << >>
                   ELSE (IF i \in keep THEN <<rows[i]>> ELSE << >>) \o Take(i + 1)
    IN  Take(1)

RECURSIVE ConcatGroups(_, _, _)
ConcatGroups(rows, keys, n) ==
    IF keys = << >> THEN << >>
    ELSE groupby_head(GroupRows(rows, keys[1]), n) \o ConcatGroups(rows, Tail(keys), n)

\* get_top_protein_recipes returning the groups one after the other
get_top_protein_recipes_grouped(t, top_n) ==
    IF "Protein(g)" \notin t.cols THEN {EmptyFrame}
    ELSE {[cols |-> t.cols, rows |-> ConcatGroups(s, GroupKeys(s), top_n)] :
            s \in sort_values_desc(t.rows, "Protein(g)")}

\* get_top_protein_recipes: the set of frames the call may return
get_top_protein_recipes(t, top_n) ==
    IF "Protein(g)" \notin t.cols THEN {EmptyFrame}
    ELSE {[cols |-> t.cols, rows |-> groupby_head(s, top_n)] :
            s \in sort_values_desc(t.rows, "Protein(g)")}

DefaultTopN == 5

\* results of get_highest_protein_diet: an index label, None, NaN, or an exception
Label(k) == [tag |-> "label", v |-> k]
None == [tag |-> "None", v |-> NoStr]
NanLabel == [tag |-> "nan", v |-> NoStr]
ValueError == [tag |-> "ValueError", v |-> NoStr]

\* idxmax returning the last row that holds the maximum
idxmax_last(rows, col) ==
    LET cand == {i \in 1..Len(rows) : ~isna(rows[i][col])}
        best == {i \in cand : \A j \in cand : ~FLess(rows[i][col], rows[j][col])}
        final == CHOOSE i \in best : \A j \in best : i >= j
    IN  IF cand = {} THEN {[tag |-> "nan", v |-> NoStr], [tag |-> "ValueError", v |-> NoStr]}
        ELSE {[tag |-> "label", v |-> rows[final]["_index"]]}

\* Series.idxmax(): the index label of the first row holding the maximum, missing
\* values skipped.  On a series with no non-missing value the outcome depends on
\* the pandas version (NaN with a warning, or ValueError): both are outcomes.
idxmax(rows, col) ==
    LET cand == {i \in 1..Len(rows) : ~isna(rows[i][col])}
        best == {i \in cand : \A j \in cand : ~FLess(rows[i][col], rows[j][col])}
        first == CHOOSE i \in best : \A j \in best : i <= j
    IN  IF cand = {} THEN {NanLabel, ValueError}
        ELSE {Label(rows[first]["_index"])}

\* get_highest_protein_diet: the set of the outcomes the call may produce
get_highest_protein_diet(avg) ==
    IF "Protein(g)" \notin avg.cols THEN {None}
    ELSE idxmax(avg.rows, "Protein(g)")

RECURSIVE InSeenOrder(_, _)
\* the values of S in the order of their first occurrence in s
InSeenOrder(s, S) ==
    IF s = << >> THEN << >>
    ELSE IF s[1] \in S THEN <<s[1]>> \o InSeenOrder(Tail(s), S \ {s[1]})
    ELSE InSeenOrder(Tail(s), S)

\* mode() returning the most frequent values in the order they are first met
series_mode_first_seen(s) ==
    LET vals == {s[i] : i \in 1..Len(s)} \ {NoStr}
        Count(v) == Cardinality({i \in 1..Len(s) : s[i] = v})
    IN  InSeenOrder(s, {v \in vals : \A w \in vals : Count(w) <= Count(v)})

\* Series.mode(): the most frequent non-missing values, in ascending order
series_mode(s) ==
    LET vals == {s[i] : i \in 1..Len(s)} \ {NoStr}
        Count(v) == Cardinality({i \in 1..Len(s) : s[i] = v})
    IN  SortStrs({v \in vals : \A w \in vals : Count(w) <= Count(v)})

\* the aggregation lambda of get_common_cuisines
cuisine_lambda(x) ==
    IF series_mode(x) # << >> THEN series_mode(x)[1] ELSE s_Unknown

get_common_cuisines(t) ==
    IF "Cuisine_type" \notin t.cols
    THEN [cols |-> {"Diet_type", "Cuisine_type"}, rows |-> << >>]
    ELSE LET keys == GroupKeys(t.rows)
         IN  [cols |-> {"Diet_type", "Cuisine_type"},
              rows |-> [g \in 1..Len(keys) |->
                 [c \in {"_index", "Diet_type", "Cuisine_type"} |->
                    IF c = "_index" THEN <<g - 1>>
                    ELSE IF c = "Diet_type" THEN keys[g]
                    ELSE cuisine_lambda(Column([cols |-> t.cols,
                              rows |-> GroupRows(t.rows, keys[g])], "Cuisine_type"))]]]

\* filter_by_diet lowering only the argument, not the column
filter_by_diet_column_not_lowered(t, diet_type) ==
    IF lower(diet_type) = s_all THEN t
    ELSE IF "Diet_type" \notin t.cols THEN EmptyFrame
    ELSE LET Match(r) == /\ r["Diet_type"] # NoStr
                         /\ r["Diet_type"] = lower(diet_type)
         IN  [cols |-> t.cols, rows |-> SelectSeq(t.rows, Match)]

\* filter_by_diet: 'all' is tested first, then the column's presence; a missing
\* Diet_type cell lowers to NaN and compares unequal
filter_by_diet(t, diet_type) ==
    IF lower(diet_type) = s_all THEN t
    ELSE IF "Diet_type" \notin t.cols THEN EmptyFrame
    ELSE LET Match(r) == /\ r["Diet_type"] # NoStr
                         /\ lower(r["Diet_type"]) = lower(diet_type)
         IN  [cols |-> t.cols, rows |-> SelectSeq(t.rows, Match)]

FSub(x, y) ==
    IF x = NaN \/ y = NaN THEN NaN ELSE Frac(x[1] * y[2] - y[1] * x[2], x[2] * y[2])

FMul(x, y) ==
    IF x = NaN \/ y = NaN THEN NaN ELSE Frac(x[1] * y[1], x[2] * y[2])

\* the square root of a fraction is kept symbolically, as <<n, d, 2>>
FSqrt(x) == IF x = NaN THEN NaN ELSE <<x[1], x[2], 2>>

RECURSIVE SortNums(_)
\* the numbers of a sequence in ascending order
SortNums(s) ==
    IF s = << >> THEN << >>
    ELSE LET m == CHOOSE i \in 1..Len(s) : \A j \in 1..Len(s) : ~FLess(s[j], s[i])
             rest == [k \in 1..(Len(s) - 1) |-> IF k < m THEN s[k] ELSE s[k + 1]]
         IN  <<s[m]>> \o SortNums(rest)

\* Series.quantile(k/4) with linear interpolation
quartile(vals, k) ==
    LET v == SortNums(vals)
        pos == (Len(v) - 1) * k
        lo == pos \div 4
        fr == Frac(pos % 4, 4)
    IN  IF v = << >> THEN NaN
        ELSE IF fr = Num(0) THEN v[lo + 1]
        ELSE FAdd(v[lo + 1], FMul(FSub(v[lo + 2], v[lo + 1]), fr))

\* Series.std(): the sample standard deviation (ddof=1), NaN below two values
series_std(vals) ==
    LET m == series_mean(vals)
        sq == [i \in 1..Len(vals) |-> FMul(FSub(vals[i], m), FSub(vals[i], m))]
    IN  IF Len(vals) < 2 THEN NaN
        ELSE FSqrt(FDiv(FSum(sq), Num(Len(vals) - 1)))

DescribeRows ==
    <<"count", "mean", "std", "min", "25%", "50%", "75%", "max">>

describe_cell(s, stat) ==
    LET vals == SelectSeq(s, NotNa)
        v == SortNums(vals)
    IN  CASE stat = "count" -> Num(Len(vals))
          [] stat = "mean" -> series_mean(vals)
          [] stat = "std" -> series_std(vals)
          [] stat = "min" -> IF v = << >> THEN NaN ELSE v[1]
          [] stat = "25%" -> quartile(vals, 1)
          [] stat = "50%" -> quartile(vals, 2)
          [] stat = "75%" -> quartile(vals, 3)
          [] stat = "max" -> IF v = << >> THEN NaN ELSE v[Len(v)]

\* get_macronutrient_distribution: describe() of the macronutrient columns present
get_macronutrient_distribution(t) ==
    LET available_cols == MacroSet \cap t.cols
    IN  IF available_cols = {} THEN EmptyFrame
        ELSE [cols |-> available_cols,
              rows |-> [k \in 1..Len(DescribeRows) |->
                 [c \in available_cols \cup {"_index"} |->
                    IF c = "_index" THEN DescribeRows[k]
                    ELSE describe_cell(Column(t, c), DescribeRows[k])]]]

\* ---------------------------------------------------------------- inputs
s_recipe == <<114>>

\* the floats a macronutrient cell of an input file may hold
FileVals == {NaN} \cup {Num(k) : k \in 0..MaxVal}

PipeVals == {NaN} \cup {Num(k) : k \in 0..PipeMaxVal}

\* the rows over the columns cs whose cells are drawn from the given sets
RowsOver(cs, diets, cuisines, pv, cv, fv) ==
    {[c \in cs \cup {"_index"} |->
        CASE c = "Diet_type" -> d
          [] c = "Recipe_name" -> s_recipe
          [] c = "Cuisine_type" -> cu
          [] c = "Protein(g)" -> p
          [] c = "Carbs(g)" -> cb
          [] c = "Fat(g)" -> f
          [] OTHER -> <<0>>] :
        d \in diets, cu \in cuisines, p \in pv, cb \in cv, f \in fv}

\* the tables of 1..n rows read from a file: read_csv numbers the rows 0, 1, ...
TablesOver(n, cs, diets, cuisines, pv, cv, fv) ==
    UNION {{[cols |-> cs,
             rows |-> [i \in 1..k |-> [rs[i] EXCEPT !["_index"] = <<i - 1>>]]] :
              rs \in [1..k -> RowsOver(cs, diets, cuisines, pv, cv, fv)]} :
           k \in 1..n}

Idle ==
    /\ avg_macros = EmptyFrame
    /\ top_protein = EmptyFrame
    /\ highest_protein_diet = None
    /\ common_cuisines = EmptyFrame
    /\ out = EmptyFrame
    /\ raised = "none"

NoRequest == [req |-> "none", status |-> 0, ran |-> FALSE, data |-> << >>]

SockClosed == [open |-> FALSE, user |-> NoStr]

NoWeb ==
    /\ session = NoStr
    /\ sock = SockClosed
    /\ last = NoRequest

\* ---------------------------------------------------------------- run_full_analysis
InitPipeline ==
    /\ fileExists \in BOOLEAN
    /\ IF fileExists
       THEN \E opt \in SUBSET (MacroSet \cup {"Cuisine_type"}) :
              file \in TablesOver(PipeRows, BaseCols \cup opt, {s_keto, s_vegan},
                                  {NoStr, s_Thai}, PipeVals, PipeVals, PipeVals)
       ELSE file = EmptyFrame
    /\ df = EmptyFrame
    /\ pc = "start"
    /\ arg = DefaultTopN
    /\ Idle
    /\ NoWeb

Abort(e) ==
    /\ raised' = e
    /\ pc' = "aborted"

\* df = load_dataset(filepath): FileNotFoundError is logged and re-raised
rfa_load ==
    /\ pc = "start"
    /\ IF fileExists
       THEN /\ df' = file
            /\ pc' = "loaded"
            /\ UNCHANGED raised
       ELSE /\ Abort("FileNotFoundError")
            /\ UNCHANGED df
    /\ UNCHANGED <<fileExists, file, arg, avg_macros, top_protein,
                   highest_protein_diet, common_cuisines, out, session, sock, last>>

\* df = clean_macronutrients(df)
rfa_clean ==
    /\ pc = "loaded"
    /\ df' = clean_macronutrients(df)
    /\ pc' = "cleaned"
    /\ UNCHANGED <<fileExists, file, raised, arg, avg_macros, top_protein,
                   highest_protein_diet, common_cuisines, out, session, sock, last>>

\* df = add_nutrient_ratios(df)
rfa_ratios ==
    /\ pc = "cleaned"
    /\ IF add_nutrient_ratios_raises(df)
       THEN /\ Abort("KeyError")
            /\ UNCHANGED df
       ELSE /\ df' = add_nutrient_ratios(df)
            /\ pc' = "derived"
            /\ UNCHANGED raised
    /\ UNCHANGED <<fileExists, file, arg, avg_macros, top_protein,
                   highest_protein_diet, common_cuisines, out, session, sock, last>>

\* avg_macros = calculate_average_macros(df)
rfa_avg ==
    /\ pc = "derived"
    /\ IF calculate_average_macros_raises(df)
       THEN /\ Abort("KeyError")
            /\ UNCHANGED avg_macros
       ELSE /\ avg_macros' = calculate_average_macros(df)
            /\ pc' = "averaged"
            /\ UNCHANGED raised
    /\ UNCHANGED <<fileExists, file, df, arg, top_protein,
                   highest_protein_diet, common_cuisines, out, session, sock, last>>

\* top_protein = get_top_protein_recipes(df)
rfa_top ==
    /\ pc = "averaged"
    /\ top_protein' \in get_top_protein_recipes(df, DefaultTopN)
    /\ pc' = "ranked"
    /\ UNCHANGED <<fileExists, file, df, raised, arg, avg_macros,
                   highest_protein_diet, common_cuisines, out, session, sock, last>>

\* highest_protein_diet = get_highest_protein_diet(avg_macros)
rfa_highest ==
    /\ pc = "ranked"
    /\ \E r \in get_highest_protein_diet(avg_macros) :
          IF r = ValueError
          THEN /\ Abort("ValueError")
               /\ UNCHANGED highest_protein_diet
          ELSE /\ highest_protein_diet' = r
               /\ pc' = "highest"
               /\ UNCHANGED raised
    /\ UNCHANGED <<fileExists, file, df, arg, avg_macros, top_protein,
                   common_cuisines, out, session, sock, last>>

\* common_cuisines = get_common_cuisines(df)
rfa_cuisines ==
    /\ pc = "highest"
    /\ common_cuisines' = get_common_cuisines(df)
    /\ pc' = "cuisines"
    /\ UNCHANGED <<fileExists, file, df, raised, arg, avg_macros, top_protein,
                   highest_protein_diet, out, session, sock, last>>

ProjectionCols == {"Diet_type", "Recipe_name", "Protein(g)", "Cuisine_type"}

\* t[cs]: the frame restricted to the columns cs
select_columns(t, cs) ==
    [cols |-> cs,
     rows |-> [i \in 1..Len(t.rows) |-> [c \in cs \cup {"_index"} |-> t.rows[i][c]]]]

\* DataFrame.reset_index(): the index becomes the column Diet_type
reset_index(t) ==
    [cols |-> t.cols \cup {"Diet_type"},
     rows |-> [i \in 1..Len(t.rows) |->
        [c \in t.cols \cup {"Diet_type", "_index"} |->
            IF c = "Diet_type" THEN t.rows[i]["_index"]
            ELSE IF c = "_index" THEN <<i - 1>>
            ELSE t.rows[i][c]]]]

\* the results dictionary: the projection raises KeyError when top_protein has
\* rows and lacks one of the four columns
rfa_results ==
    /\ pc = "cuisines"
    /\ IF top_protein.rows # << >> /\ ~(ProjectionCols \subseteq top_protein.cols)
       THEN /\ Abort("KeyError")
            /\ UNCHANGED out
       ELSE /\ out' = [average_macros |-> reset_index(avg_macros),
                       top_protein_recipes |->
                           IF top_protein.rows # << >>
                           THEN select_columns(top_protein, ProjectionCols)
                           ELSE EmptyFrame,
                       highest_protein_diet |-> highest_protein_diet,
                       common_cuisines |-> common_cuisines]
            /\ pc' = "returned"
            /\ UNCHANGED raised
    /\ UNCHANGED <<fileExists, file, df, arg, avg_macros, top_protein,
                   highest_protein_diet, common_cuisines, session, sock, last>>

NextPipeline ==
    \/ rfa_load
    \/ rfa_clean
    \/ rfa_ratios
    \/ rfa_avg
    \/ rfa_top
    \/ rfa_highest
    \/ rfa_cuisines
    \/ rfa_results

SpecPipeline == InitPipeline /\ [][NextPipeline]_vars

\* ---------------------------------------------------------------- direct calls
\* The API handlers of app.py load and clean the dataset and then call one
\* aggregator on the cleaned table (no ratio step in between).
InitCalls ==
    /\ fileExists = TRUE
    /\ \E opt \in SUBSET (MacroSet \cup {"Cuisine_type"}) :
          file \in TablesOver(PipeRows, BaseCols \cup opt, {s_keto, s_vegan},
                              {NoStr, s_Thai}, PipeVals, PipeVals, PipeVals)
    /\ df = EmptyFrame
    /\ pc = "start"
    /\ arg = DefaultTopN
    /\ Idle
    /\ NoWeb

\* df = load_dataset(...); df = clean_macronutrients(df)
api_load_clean ==
    /\ pc = "start"
    /\ df' = clean_macronutrients(file)
    /\ pc' = "cleaned"
    /\ UNCHANGED <<fileExists, file, raised, arg, avg_macros, top_protein,
                   highest_protein_diet, common_cuisines, out, session, sock, last>>

\* avg_macros_api, heatmap_data_api: calculate_average_macros(df)
api_avg_macros ==
    /\ pc = "cleaned"
    /\ IF calculate_average_macros_raises(df)
       THEN /\ Abort("KeyError")
            /\ UNCHANGED avg_macros
       ELSE /\ avg_macros' = calculate_average_macros(df)
            /\ pc' = "averaged"
            /\ UNCHANGED raised
    /\ UNCHANGED <<fileExists, file, df, arg, top_protein,
                   highest_protein_diet, common_cuisines, out, session, sock, last>>

\* top_protein_api: get_top_protein_recipes(df)
api_top_protein ==
    /\ pc = "cleaned"
    /\ top_protein' \in get_top_protein_recipes(df, DefaultTopN)
    /\ pc' = "ranked"
    /\ UNCHANGED <<fileExists, file, df, raised, arg, avg_macros,
                   highest_protein_diet, common_cuisines, out, session, sock, last>>

\* common_cuisines_api: get_common_cuisines(df)
api_common_cuisines ==
    /\ pc = "cleaned"
    /\ common_cuisines' = get_common_cuisines(df)
    /\ pc' = "cuisines"
    /\ UNCHANGED <<fileExists, file, df, raised, arg, avg_macros, top_protein,
                   highest_protein_diet, out, session, sock, last>>

\* distribution_api: get_macronutrient_distribution(df)
api_distribution ==
    /\ pc = "cleaned"
    /\ out' = get_macronutrient_distribution(df)
    /\ pc' = "described"
    /\ UNCHANGED <<fileExists, file, df, raised, arg, avg_macros, top_protein,
                   highest_protein_diet, common_cuisines, session, sock, last>>

\* get_highest_protein_diet on the averaged table, or on its columns other than
\* Protein(g); avg_macros keeps the table that was passed
call_highest ==
    /\ pc = "averaged"
    /\ \E cs \in {MacroSet, MacroSet \ {"Protein(g)"}} :
          /\ avg_macros' = select_columns(avg_macros, cs)
          /\ \E r \in get_highest_protein_diet(avg_macros') :
                IF r = ValueError
                THEN /\ Abort("ValueError")
                     /\ UNCHANGED highest_protein_diet
                ELSE /\ highest_protein_diet' = r
                     /\ pc' = "highest"
                     /\ UNCHANGED raised
    /\ UNCHANGED <<fileExists, file, df, arg, top_protein,
                   common_cuisines, out, session, sock, last>>

NextCalls ==
    \/ api_load_clean
    \/ api_avg_macros
    \/ api_top_protein
    \/ api_common_cuisines
    \/ api_distribution
    \/ call_highest

SpecCalls == InitCalls /\ [][NextCalls]_vars

\* ---------------------------------------------------------------- claims C1, C2, C7, C8
\* the sum and the number of the non-missing cells of column c of the file
RECURSIVE IntSum(_)
IntSum(s) == IF s = << >> THEN 0 ELSE s[1][1] + IntSum(Tail(s))

Present(t, c) == SelectSeq(Column(t, c), NotNa)

\* v is the arithmetic mean of the non-missing file cells of column c
IsMeanOfPresent(v, t, c) ==
    /\ Present(t, c) # << >>
    /\ v # NaN
    /\ v[1] * Len(Present(t, c)) = v[2] * IntSum(Present(t, c))

\* C1: after clean_macronutrients every present macronutrient column holds no
\* missing value, every cell that was missing holds the mean of the column's
\* originally non-missing values, and every other cell is unchanged -- for every
\* table, one with an entirely missing column included.
C1_CleanFillsEveryMissingCell ==
    pc = "cleaned" =>
        \A c \in MacroSet \cap file.cols : \A i \in 1..Len(file.rows) :
            /\ ~isna(df.rows[i][c])
            /\ isna(file.rows[i][c]) => IsMeanOfPresent(df.rows[i][c], file, c)
            /\ ~isna(file.rows[i][c]) => df.rows[i][c] = file.rows[i][c]

\* C2: after add_nutrient_ratios no row is dropped, a zero denominator gives the
\* ratio 0, any other denominator gives the quotient, and no ratio cell is
\* missing, whatever the row holds.
C2_RatiosAlwaysDefined ==
    pc = "derived" =>
        /\ Len(df.rows) = Len(file.rows)
        /\ \A i \in 1..Len(df.rows) :
            LET r == df.rows[i]
                p == r["Protein(g)"]
                c == r["Carbs(g)"]
                f == r["Fat(g)"]
            IN  /\ c = Num(0) => r["Protein_to_Carbs_ratio"] = Num(0)
                /\ f = Num(0) => r["Carbs_to_Fat_ratio"] = Num(0)
                /\ r["Protein_to_Carbs_ratio"] # NaN
                /\ r["Carbs_to_Fat_ratio"] # NaN
                /\ (c # Num(0) /\ c # NaN) =>
                      r["Protein_to_Carbs_ratio"][1] * c[1] * p[2]
                          = p[1] * c[2] * r["Protein_to_Carbs_ratio"][2]
                /\ (f # Num(0) /\ f # NaN) =>
                      r["Carbs_to_Fat_ratio"][1] * f[1] * c[2]
                          = c[1] * f[2] * r["Carbs_to_Fat_ratio"][2]

\* C7: on a table that lacks some of Protein(g), Carbs(g), Fat(g), Cuisine_type no
\* aggregator raises; each returns its fallback, and calculate_average_macros
\* returns the per-diet means of the macronutrient columns that are present.
C7_MissingColumnsNeverRaise ==
    /\ raised = "none"
    /\ pc = "averaged" => avg_macros.cols = MacroSet \cap df.cols
    /\ (pc = "ranked" /\ "Protein(g)" \notin df.cols) => top_protein = EmptyFrame
    /\ (pc = "cuisines" /\ "Cuisine_type" \notin df.cols) => common_cuisines.rows = << >>
    /\ pc = "described" => out.cols = MacroSet \cap df.cols
    /\ (pc = "highest" /\ "Protein(g)" \notin avg_macros.cols) =>
          highest_protein_diet = None

\* the file holds every macronutrient column and no missing macronutrient cell
WellFormedMacros(t) ==
    /\ MacroSet \subseteq t.cols
    /\ \A c \in MacroSet : \A i \in 1..Len(t.rows) : ~isna(t.rows[i][c])

BundleKeys ==
    {"average_macros", "top_protein_recipes", "highest_protein_diet", "common_cuisines"}

\* C8: run_full_analysis aborts exactly when the loader fails, with no later step
\* run; a readable file -- one without the optional Cuisine_type column included --
\* always ends in a returned bundle of the four keys.  (Stated on the files whose
\* macronutrient columns are complete, where Cuisine_type is the only column that
\* may be absent.)
C8_ReadableFileReturnsBundle ==
    /\ (pc = "aborted" /\ ~fileExists) =>
          /\ raised = "FileNotFoundError"
          /\ df = EmptyFrame
          /\ avg_macros = EmptyFrame
          /\ top_protein = EmptyFrame
    /\ (fileExists /\ WellFormedMacros(file)) => pc # "aborted"
    /\ pc = "returned" => DOMAIN out = BundleKeys

\* ---------------------------------------------------------------- ranking and averaging
InitRank ==
    /\ fileExists = TRUE
    /\ file \in TablesOver(MaxRows, AllCols, {s_keto, s_vegan}, {s_Thai},
                           FileVals, {Num(1)}, {Num(1)})
    /\ df = file
    /\ pc = "loaded"
    /\ arg \in 0..MaxTopN
    /\ Idle
    /\ NoWeb

\* clean_macronutrients(df)
call_clean ==
    /\ pc = "loaded"
    /\ df' = clean_macronutrients(df)
    /\ pc' = "cleaned"
    /\ UNCHANGED <<fileExists, file, raised, arg, avg_macros, top_protein,
                   highest_protein_diet, common_cuisines, out, session, sock, last>>

\* get_top_protein_recipes(df, top_n)
call_top ==
    /\ pc \in {"loaded", "cleaned"}
    /\ top_protein' \in get_top_protein_recipes(df, arg)
    /\ pc' = "ranked"
    /\ UNCHANGED <<fileExists, file, df, raised, arg, avg_macros,
                   highest_protein_diet, common_cuisines, out, session, sock, last>>

\* calculate_average_macros(df)
call_avg ==
    /\ pc \in {"loaded", "cleaned"}
    /\ IF calculate_average_macros_raises(df)
       THEN /\ Abort("KeyError")
            /\ UNCHANGED avg_macros
       ELSE /\ avg_macros' = calculate_average_macros(df)
            /\ pc' = "averaged"
            /\ UNCHANGED raised
    /\ UNCHANGED <<fileExists, file, df, arg, top_protein,
                   highest_protein_diet, common_cuisines, out, session, sock, last>>

NextRank ==
    \/ call_clean
    \/ call_top
    \/ call_avg
    \/ call_highest

SpecRank == InitRank /\ [][NextRank]_vars

\* ---------------------------------------------------------------- claims C3, C5, C10
DietsOf(t) == {t.rows[i]["Diet_type"] : i \in 1..Len(t.rows)}

RowsOfDiet(rows, d) == {i \in 1..Len(rows) : rows[i]["Diet_type"] = d}

Min(a, b) == IF a < b THEN a ELSE b

\* the index labels of the rows of the result
Returned == {top_protein.rows[i]["_index"] : i \in 1..Len(top_protein.rows)}

\* C3: for top_n >= 0 the result holds exactly min(top_n, group size) rows of each
\* Diet_type, the rows of one diet are in non-increasing Protein(g) order, and no
\* row left out has a strictly greater Protein(g) than a returned row of its diet.
C3_TopNPerDiet ==
    pc = "ranked" =>
        LET res == top_protein.rows IN
        /\ \A d \in DietsOf(df) :
              Cardinality(RowsOfDiet(res, d))
                  = Min(arg, Cardinality(RowsOfDiet(df.rows, d)))
        /\ \A i, j \in 1..Len(res) :
              (i < j /\ res[i]["Diet_type"] = res[j]["Diet_type"]) =>
                  ~FLess(res[i]["Protein(g)"], res[j]["Protein(g)"])
        /\ \A x \in 1..Len(df.rows) : \A y \in 1..Len(res) :
              (/\ df.rows[x]["_index"] \notin Returned
               /\ df.rows[x]["Diet_type"] = res[y]["Diet_type"]) =>
                  ~FLess(res[y]["Protein(g)"], df.rows[x]["Protein(g)"])

\* a diet with more rows than top_n, so that the cut leaves a row out
C3_Witness ==
    /\ pc = "ranked"
    /\ arg > 0
    /\ \E d \in DietsOf(df) : Cardinality(RowsOfDiet(df.rows, d)) > arg
    /\ \E i, j \in 1..Len(df.rows) :
          FLess(df.rows[i]["Protein(g)"], df.rows[j]["Protein(g)"])

\* the table holds no missing Protein(g) cell (what cleaning leaves when the
\* column has a value at all)
NoMissingProtein(t) ==
    \A i \in 1..Len(t.rows) : ~isna(t.rows[i]["Protein(g)"])

\* no two rows hold the same Protein(g): the order of the result does not depend
\* on how the sort treats equal keys
NoTies(t) ==
    \A i, j \in 1..Len(t.rows) :
        i # j => t.rows[i]["Protein(g)"] # t.rows[j]["Protein(g)"]

\* C10 as stated: the result is the concatenation of the per-diet groups (the rows
\* of one diet are contiguous), each group Protein(g)-descending, and rows of one
\* diet with equal Protein(g) keep their original relative order, the earlier ones
\* being the ones kept at the cut.  Stated on the tables without missing and
\* without equal Protein(g) values, so that a violation does not rest on the order
\* of equal keys.
C10_GroupsContiguousAndStable ==
    (pc = "ranked" /\ NoMissingProtein(df) /\ NoTies(df)) =>
        LET res == top_protein.rows IN
        /\ \A i, j, k \in 1..Len(res) :
              (i < j /\ j < k /\ res[i]["Diet_type"] = res[k]["Diet_type"]) =>
                  res[j]["Diet_type"] = res[i]["Diet_type"]
        /\ \A i, j \in 1..Len(res) :
              (i < j /\ res[i]["Diet_type"] = res[j]["Diet_type"]) =>
                  /\ ~FLess(res[i]["Protein(g)"], res[j]["Protein(g)"])
                  /\ res[i]["Protein(g)"] = res[j]["Protein(g)"] =>
                        res[i]["_index"][1] < res[j]["_index"][1]
        /\ \A x \in 1..Len(df.rows) : \A y \in 1..Len(res) :
              (/\ df.rows[x]["_index"] \notin Returned
               /\ df.rows[x]["Diet_type"] = res[y]["Diet_type"]
               /\ df.rows[x]["Protein(g)"] = res[y]["Protein(g)"]) =>
                  res[y]["_index"][1] < df.rows[x]["_index"][1]

\* C10 amended: the result is in non-increasing Protein(g) order across the whole
\* table, whatever the diet (rows with a missing Protein(g) last, in their original
\* order); every returned row is a row of the input, returned once.
C10_GlobalProteinOrder ==
    pc = "ranked" =>
        LET res == top_protein.rows IN
        /\ \A i, j \in 1..Len(res) :
              i < j =>
                  /\ ~FLess(res[i]["Protein(g)"], res[j]["Protein(g)"])
                  /\ isna(res[i]["Protein(g)"]) =>
                        /\ isna(res[j]["Protein(g)"])
                        /\ res[i]["_index"][1] < res[j]["_index"][1]
                  /\ res[i]["_index"] # res[j]["_index"]
        /\ \A i \in 1..Len(res) : \E x \in 1..Len(df.rows) : df.rows[x] = res[i]

\* a result in which a row of another diet stands between two rows of one diet
C10_Witness ==
    /\ pc = "ranked"
    /\ NoMissingProtein(df)
    /\ NoTies(df)
    /\ LET res == top_protein.rows IN
       \E i, j, k \in 1..Len(res) :
          /\ i < j /\ j < k
          /\ res[i]["Diet_type"] = res[k]["Diet_type"]
          /\ res[j]["Diet_type"] # res[i]["Diet_type"]
          /\ FLess(res[k]["Protein(g)"], res[j]["Protein(g)"])
          /\ FLess(res[j]["Protein(g)"], res[i]["Protein(g)"])

ProteinSum(d) ==
    LET InDiet(r) == r["Diet_type"] = d
    IN  FSum(Column([cols |-> df.cols, rows |-> SelectSeq(df.rows, InDiet)], "Protein(g)"))

ProteinCount(d) == Cardinality(RowsOfDiet(df.rows, d))

\* mean Protein(g) of diet a < mean Protein(g) of diet b, by cross-multiplication
MeanLess(a, b) ==
    FLess(FMul(ProteinSum(a), Num(ProteinCount(b))),
          FMul(ProteinSum(b), Num(ProteinCount(a))))

\* the position of diet d in the averaged table
AvgPos(d) == CHOOSE i \in 1..Len(avg_macros.rows) : avg_macros.rows[i]["_index"] = d

\* C5: on a non-empty cleaned table get_highest_protein_diet(calculate_average_macros(df))
\* is a Diet_type whose mean Protein(g) is maximal over the diets, the first such
\* diet in the averaged table's row order; it is None when the averaged input has
\* no Protein(g) column.
C5_HighestProteinDiet ==
    pc = "highest" =>
        IF "Protein(g)" \notin avg_macros.cols
        THEN highest_protein_diet = None
        ELSE NoMissingProtein(df) =>
               /\ highest_protein_diet.tag = "label"
               /\ highest_protein_diet.v \in DietsOf(df)
               /\ \A d \in DietsOf(df) :
                     /\ ~MeanLess(highest_protein_diet.v, d)
                     /\ ~MeanLess(d, highest_protein_diet.v) =>
                           AvgPos(highest_protein_diet.v) <= AvgPos(d)

\* two diets tie for the maximal mean, and the one returned is not the one that
\* comes first in the input
C5_Witness ==
    /\ pc = "highest"
    /\ "Protein(g)" \in avg_macros.cols
    /\ NoMissingProtein(df)
    /\ highest_protein_diet.tag = "label"
    /\ df.rows[1]["Diet_type"] # highest_protein_diet.v
    /\ ~MeanLess(df.rows[1]["Diet_type"], highest_protein_diet.v)
    /\ FLess(Num(0), ProteinSum(highest_protein_diet.v))

\* ---------------------------------------------------------------- common cuisines
InitCuisines ==
    /\ fileExists = TRUE
    /\ \E cs \in {AllCols, AllCols \ {"Cuisine_type"}} :
          file \in TablesOver(MaxRows, cs, {s_keto, s_vegan}, {NoStr, s_Italian, s_Thai},
                              {Num(1)}, {Num(1)}, {Num(1)})
    /\ df = file
    /\ pc = "loaded"
    /\ arg = 0
    /\ Idle
    /\ NoWeb

\* get_common_cuisines(df)
call_common_cuisines ==
    /\ pc = "loaded"
    /\ common_cuisines' = get_common_cuisines(df)
    /\ pc' = "cuisines"
    /\ UNCHANGED <<fileExists, file, df, raised, arg, avg_macros, top_protein,
                   highest_protein_diet, out, session, sock, last>>

NextCuisines ==
    \/ call_common_cuisines

SpecCuisines == InitCuisines /\ [][NextCuisines]_vars

\* ---------------------------------------------------------------- claim C6
\* the number of rows of diet d holding cuisine v
CuisineCount(d, v) ==
    Cardinality({i \in RowsOfDiet(df.rows, d) : df.rows[i]["Cuisine_type"] = v})

CuisinesOf(d) ==
    {df.rows[i]["Cuisine_type"] : i \in RowsOfDiet(df.rows, d)} \ {NoStr}

\* the cuisines of diet d of maximal frequency
Modes(d) ==
    {v \in CuisinesOf(d) : \A w \in CuisinesOf(d) : CuisineCount(d, w) <= CuisineCount(d, v)}

\* the row at which cuisine v is first met among the rows of diet d
FirstSeen(d, v) ==
    CHOOSE i \in RowsOfDiet(df.rows, d) :
        /\ df.rows[i]["Cuisine_type"] = v
        /\ \A j \in RowsOfDiet(df.rows, d) : df.rows[j]["Cuisine_type"] = v => i <= j

\* the cuisine the result maps diet d to
ResultFor(d) ==
    LET i == CHOOSE k \in 1..Len(common_cuisines.rows) :
                 common_cuisines.rows[k]["Diet_type"] = d
    IN  common_cuisines.rows[i]["Cuisine_type"]

MapsEveryDietOnce ==
    \A d \in DietsOf(df) :
        Cardinality({k \in 1..Len(common_cuisines.rows) :
                       common_cuisines.rows[k]["Diet_type"] = d}) = 1

\* C6 as stated: each Diet_type maps to a Cuisine_type of maximal frequency among
\* its rows, the first-encountered one in row order when several tie, and to
\* 'Unknown' when no value is present in the group.
C6_ModeFirstEncountered ==
    (pc = "cuisines" /\ "Cuisine_type" \in df.cols) =>
        /\ MapsEveryDietOnce
        /\ \A d \in DietsOf(df) :
              IF CuisinesOf(d) = {} THEN ResultFor(d) = s_Unknown
              ELSE /\ ResultFor(d) \in Modes(d)
                   /\ \A v \in Modes(d) : FirstSeen(d, ResultFor(d)) <= FirstSeen(d, v)

\* C6 amended: each Diet_type maps to a Cuisine_type of maximal frequency among its
\* rows, the smallest one in string order when several tie (Series.mode() returns
\* the modes sorted), and to 'Unknown' when no value is present in the group.
C6_ModeSmallestOfTied ==
    (pc = "cuisines" /\ "Cuisine_type" \in df.cols) =>
        /\ MapsEveryDietOnce
        /\ \A d \in DietsOf(df) :
              IF CuisinesOf(d) = {} THEN ResultFor(d) = s_Unknown
              ELSE /\ ResultFor(d) \in Modes(d)
                   /\ \A v \in Modes(d) : ~StrLess(v, ResultFor(d))

\* a diet whose cuisines tie, the one met first not being the one chosen
C6_Witness ==
    /\ pc = "cuisines"
    /\ "Cuisine_type" \in df.cols
    /\ \E d \in DietsOf(df) :
          /\ Cardinality(Modes(d)) > 1
          /\ \E v \in Modes(d) : FirstSeen(d, v) < FirstSeen(d, ResultFor(d))

\* ---------------------------------------------------------------- filter_by_diet
DietArgs == {s_all, s_ALL, s_All, s_keto, s_KETO, s_vegan, s_paleo}

InitFilter ==
    /\ fileExists = TRUE
    /\ \E cs \in {AllCols, AllCols \ {"Diet_type"}} :
          file \in TablesOver(MaxRows, cs, {s_keto, s_Keto, s_vegan, NoStr}, {s_Thai},
                              {Num(1)}, {Num(1)}, {Num(1)})
    /\ df = file
    /\ pc = "loaded"
    /\ arg \in DietArgs
    /\ Idle
    /\ NoWeb

\* filter_by_diet(df, diet_type)
call_filter_by_diet ==
    /\ pc = "loaded"
    /\ out' = filter_by_diet(df, arg)
    /\ pc' = "filtered"
    /\ UNCHANGED <<fileExists, file, df, raised, arg, avg_macros, top_protein,
                   highest_protein_diet, common_cuisines, session, sock, last>>

NextFilter ==
    \/ call_filter_by_diet

SpecFilter == InitFilter /\ [][NextFilter]_vars

\* ---------------------------------------------------------------- claim C4
IsLetter(c) == c \in 65..90 \/ c \in 97..122

\* a and b are the same text up to the case of their letters
SameIgnoringCase(a, b) ==
    /\ Len(a) = Len(b)
    /\ \A i \in 1..Len(a) :
          \/ a[i] = b[i]
          \/ /\ IsLetter(a[i])
             /\ IsLetter(b[i])
             /\ (a[i] - b[i] = 32 \/ b[i] - a[i] = 32)

\* the rows of df whose Diet_type is x up to case, in their order
RowsMatching(x) ==
    LET Hit(r) == /\ "Diet_type" \in DOMAIN r
                  /\ r["Diet_type"] # NoStr
                  /\ SameIgnoringCase(r["Diet_type"], x)
    IN  SelectSeq(df.rows, Hit)

\* C4: filter_by_diet(df, x) is the input itself when x is "all" in any casing;
\* otherwise it holds exactly the rows whose Diet_type equals x case-insensitively,
\* in their original order.
C4_FilterByDiet ==
    pc = "filtered" =>
        IF SameIgnoringCase(arg, s_all) THEN out = df
        ELSE out.rows = RowsMatching(arg)

\* a filter that keeps a row whose Diet_type differs from x in case and drops
\* another row
C4_Witness ==
    /\ pc = "filtered"
    /\ ~SameIgnoringCase(arg, s_all)
    /\ \E i \in 1..Len(out.rows) : out.rows[i]["Diet_type"] # arg
    /\ Len(out.rows) < Len(df.rows)

\* ---------------------------------------------------------------- app.py
s_student == <<115, 116, 117, 100, 101, 110, 116>>
s_student_padded == <<32, 115, 116, 117, 100, 101, 110, 116, 32>>
s_mallory == <<109, 97, 108, 108, 111, 114, 121>>
s_password == <<80, 97, 115, 115, 119, 111, 114, 100, 49, 50, 51, 33>>
s_wrong == <<108, 101, 116, 109, 101, 105, 110>>
s_code == <<49, 50, 51, 52, 53, 54>>
s_badcode == <<48, 48, 48, 48, 48, 48>>

\* generate_password_hash / check_password_hash: the hash is a one-way image of
\* the password, and the check succeeds exactly on the password that was hashed
generate_password_hash(p) == <<0>> \o p

check_password_hash(h, p) == h = generate_password_hash(p)

USERS == [u \in {s_student} |-> generate_password_hash(s_password)]

DEMO_2FA_CODE == s_code

DEFAULT_MAX_FILE_AGE_HOURS == 24

RECURSIVE lstrip(_)
lstrip(s) == IF s # << >> /\ s[1] = 32 THEN lstrip(Tail(s)) ELSE s

RECURSIVE rstrip(_)
rstrip(s) ==
    IF s # << >> /\ s[Len(s)] = 32 THEN rstrip(SubSeq(s, 1, Len(s) - 1)) ELSE s

\* str.strip()
strip(s) == rstrip(lstrip(s))

\* the HTTP data routes behind api_auth_required
DataEndpoints ==
    {"recipe_api", "avg_macros_api", "top_protein_api", "common_cuisines_api",
     "summary_api", "scatter_data_api", "heatmap_data_api", "filter_diet_api",
     "distribution_api"}

\* the ages, in hours, of the files of the output directory
OutputFiles == {12, 30, 60}

InitWeb ==
    /\ fileExists = TRUE
    /\ file = EmptyFrame
    /\ df = EmptyFrame
    /\ pc = "serving"
    /\ arg = 0
    /\ avg_macros = EmptyFrame
    /\ top_protein = EmptyFrame
    /\ highest_protein_diet = None
    /\ common_cuisines = EmptyFrame
    /\ raised = "none"
    /\ out = OutputFiles
    /\ session = NoStr
    /\ sock = SockClosed
    /\ last = NoRequest

Reply(req, status, ran, data) ==
    last' = [req |-> req, status |-> status, ran |-> ran, data |-> data]

\* login_api with the JSON fields username, password, code
login_api ==
    \E u \in {s_student, s_student_padded, s_mallory, NoStr},
       password \in {s_password, s_wrong, NoStr},
       code \in {s_code, s_badcode, NoStr} :
        LET username == strip(u) IN
        /\ IF username = NoStr \/ password = NoStr \/ code = NoStr
           THEN /\ Reply("login_api", 400, TRUE, <<username, password, code>>)
                /\ UNCHANGED session
           ELSE IF \/ username \notin DOMAIN USERS
                   \/ ~check_password_hash(USERS[username], password)
           THEN /\ Reply("login_api", 401, TRUE, <<username, password, code>>)
                /\ UNCHANGED session
           ELSE IF code # DEMO_2FA_CODE
           THEN /\ Reply("login_api", 401, TRUE, <<username, password, code>>)
                /\ UNCHANGED session
           ELSE /\ session' = username
                /\ Reply("login_api", 200, TRUE, <<username, password, code>>)
        /\ UNCHANGED <<fileExists, file, df, pc, raised, arg, avg_macros, top_protein,
                       highest_protein_diet, common_cuisines, out, sock>>

\* logout_api behind api_auth_required: session.clear()
logout_api ==
    /\ IF session = NoStr
       THEN /\ Reply("logout_api", 401, FALSE, << >>)
            /\ UNCHANGED session
       ELSE /\ session' = NoStr
            /\ Reply("logout_api", 200, TRUE, << >>)
    /\ UNCHANGED <<fileExists, file, df, pc, raised, arg, avg_macros, top_protein,
                   highest_protein_diet, common_cuisines, out, sock>>

\* current_user_api: not protected
current_user_api ==
    /\ Reply("current_user_api", 200, TRUE, <<session>>)
    /\ UNCHANGED <<fileExists, file, df, pc, raised, arg, avg_macros, top_protein,
                   highest_protein_diet, common_cuisines, out, session, sock>>

\* one of the data routes behind api_auth_required; its body computes the
\* response from the dataset and changes no state of the application
data_api ==
    \E e \in DataEndpoints :
        /\ IF session = NoStr
           THEN Reply(e, 401, FALSE, << >>)
           ELSE Reply(e, 200, TRUE, << >>)
        /\ UNCHANGED <<fileExists, file, df, pc, raised, arg, avg_macros, top_protein,
                       highest_protein_diet, common_cuisines, out, session, sock>>

\* perform_cleanup: the files older than max_age_hours are deleted
perform_cleanup(files, max_age_hours) == {a \in files : ~(a > max_age_hours)}

\* cloud_cleanup_api behind api_auth_required
cloud_cleanup_api ==
    \E max_age \in {0, DEFAULT_MAX_FILE_AGE_HOURS, 48} :
        /\ IF session = NoStr
           THEN /\ Reply("cloud_cleanup_api", 401, FALSE, << >>)
                /\ UNCHANGED out
           ELSE /\ out' = perform_cleanup(out, max_age)
                /\ Reply("cloud_cleanup_api", 200, TRUE, <<max_age>>)
        /\ UNCHANGED <<fileExists, file, df, pc, raised, arg, avg_macros, top_protein,
                       highest_protein_diet, common_cuisines, session, sock>>

\* A client opens the Socket.IO connection.  SocketIO(app) is built with the
\* default manage_session=True: the handlers of the connection see a copy of the
\* HTTP session taken when the connection is made, not the HTTP session itself.
socket_connect ==
    /\ ~sock.open
    /\ sock' = [open |-> TRUE, user |-> session]
    /\ UNCHANGED <<fileExists, file, df, pc, raised, arg, avg_macros, top_protein,
                   highest_protein_diet, common_cuisines, out, session, last>>

socket_disconnect ==
    /\ sock.open
    /\ sock' = SockClosed
    /\ UNCHANGED <<fileExists, file, df, pc, raised, arg, avg_macros, top_protein,
                   highest_protein_diet, common_cuisines, out, session, last>>

\* handle_start_analysis behind api_auth_required: session.get("user") reads the
\* connection's session copy
handle_start_analysis ==
    /\ sock.open
    /\ IF sock.user = NoStr
       THEN Reply("handle_start_analysis", 401, FALSE, << >>)
       ELSE Reply("handle_start_analysis", 200, TRUE, << >>)
    /\ UNCHANGED <<fileExists, file, df, pc, raised, arg, avg_macros, top_protein,
                   highest_protein_diet, common_cuisines, out, session, sock>>

NextWeb ==
    \/ login_api
    \/ logout_api
    \/ current_user_api
    \/ data_api
    \/ cloud_cleanup_api
    \/ socket_connect
    \/ socket_disconnect
    \/ handle_start_analysis

SpecWeb == InitWeb /\ [][NextWeb]_vars

\* ---------------------------------------------------------------- claim C9
Protected ==
    DataEndpoints \cup {"cloud_cleanup_api", "logout_api", "handle_start_analysis"}

\* C9: a protected handler runs its body only while the session holds a user and
\* otherwise answers 401 without running it; the session holds a user only after a
\* login with a known username, its password and the configured 2FA code; after a
\* logout every protected request is rejected until the next successful login.
C9_ProtectedOnlyWithSessionUser ==
    /\ (last.req \in Protected \ {"logout_api"} /\ last.ran) => session # NoStr
    /\ (last.req \in Protected /\ ~last.ran) => last.status = 401
    /\ session # NoStr => session \in DOMAIN USERS
    /\ (last.req = "login_api" /\ last.status = 200) =>
          /\ last.data[1] \in DOMAIN USERS
          /\ last.data[2] = s_password
          /\ last.data[3] = DEMO_2FA_CODE

\* the gate of the HTTP routes alone
HttpGateHolds ==
    (last.req \in Protected \ {"logout_api", "handle_start_analysis"} /\ last.ran) =>
        session # NoStr

====
